---- MODULE Spec2Model ----
(***************************************************************************)
(* Model of the csv_handler_tool request handler (src/backend_v2.py) and   *)
(* of the part of the interactive client (src/frontend_v2.py) that touches *)
(* the shared output file cleaned_data.db.                                 *)
(*                                                                         *)
(* A table is a sequence of rows over the column positions; a cell is a    *)
(* triple <<kind, number, text>>.  Numbers are kept in halves (the cell    *)
(* 1.5 is <<"num", 3, "">>), so that a median of two integers is exact.    *)
(* The pandas operations are modelled with the semantics of pandas 1.x/2.x *)
(* (Series.fillna(inplace=True) on df[column] changes df).                 *)
(***************************************************************************)
EXTENDS Integers, Sequences, FiniteSets, TLC

\* ------------------------------------------------------------------ bounds
MaxRows == 3
MaxTopN == 2

\* ------------------------------------------------------------- vocabulary
Columns == {1, 2}
NoColumn == 0

\* The text of one CSV field; "" is an empty field.
Tokens == {"", "1", "2", "a"}
Numerals == {"1", "2"}

\* Python's None for an optional form field; no form text equals it.
None == "<None>"

NaN == <<"nan", 0, "">>
Num(h) == <<"num", h, "">>
Str(s) == <<"str", 0, s>>
isnull(cell) == cell[1] = "nan"

\* Python's order of the strings the model uses (code point order).
StrRank(s) ==
    CASE s = "" -> 0
      [] s = "1" -> 1
      [] s = "2" -> 2
      [] s = "X" -> 3
      [] s = "a" -> 4
      [] OTHER -> 5

\* The value of a numeral, in halves.
NumeralValue(tok) == IF tok = "1" THEN 2 ELSE 4

\* The element of a set of one element; TheOne({e(v) : v \in {x}}) is e for
\* the value of x, with x computed once.
TheOne(S) == CHOOSE y \in S : TRUE

\* ------------------------------------------------------------ the uploads
\* The column names of the header row.  SQLite compares column names without
\* regard to case, pandas does not: the names of ClashHeader are two columns
\* of a frame and one column name of a table.
Header == <<"a", "b">>
ClashHeader == <<"a", "A">>

\* An upload is the bytes of the "file" part: a header row and data rows, or
\* bytes that read_csv rejects (an empty file: EmptyDataError).
BadUpload == [parsable |-> FALSE, header |-> <<>>, rows |-> <<>>]

RowsUpTo(n) == UNION {[1..k -> [Columns -> Tokens]] : k \in 0..n}

Uploads == {[parsable |-> TRUE, header |-> Header, rows |-> r] : r \in RowsUpTo(MaxRows)} \cup {BadUpload}

\* ---------------------------------------------------------------- read_csv
ColumnTokens(rows, col) == {rows[i][col] : i \in 1..Len(rows)}

\* The dtype read_csv infers for a column: object for a table without rows,
\* int64 for numerals only, float64 when numerals and empty fields (or empty
\* fields only) occur, object as soon as one field is other text.
InferDtype(rows, col) ==
    IF Len(rows) = 0 THEN "object"
    ELSE IF ColumnTokens(rows, col) \subseteq Numerals THEN "int64"
    ELSE IF ColumnTokens(rows, col) \subseteq (Numerals \cup {""}) THEN "float64"
    ELSE "object"

ParseCell(tok, dtype) ==
    IF tok = "" THEN NaN
    ELSE IF dtype = "object" THEN Str(tok)
    ELSE Num(NumeralValue(tok))

read_csv(upload) ==
    TheOne({[columns |-> upload.header,
             dtypes |-> dt,
             rows |-> [i \in 1..Len(upload.rows) |->
                         [col \in Columns |-> ParseCell(upload.rows[i][col], dt[col])]]] :
              dt \in {[col \in Columns |-> InferDtype(upload.rows, col)]}})

NoDf == [columns |-> <<>>, dtypes |-> <<>>, rows |-> <<>>]

\* --------------------------------------------------------- frame helpers
RECURSIVE SelectRows(_, _)
\* The rows of seq whose index is in keep, in their order.
SelectRows(seq, keep) ==
    IF Len(seq) = 0 THEN <<>>
    ELSE LET front == SelectRows(SubSeq(seq, 1, Len(seq) - 1), keep)
         IN  IF Len(seq) \in keep THEN Append(front, seq[Len(seq)]) ELSE front

NullCount(df, col) == Cardinality({i \in 1..Len(df.rows) : isnull(df.rows[i][col])})

select_dtypes_object(df) == {col \in Columns : df.dtypes[col] = "object"}
select_dtypes_number(df) == {col \in Columns : df.dtypes[col] \in {"int64", "float64"}}

\* The non-missing cells of a column, and how often each occurs.
ColumnValues(df, col) == {df.rows[i][col] : i \in 1..Len(df.rows)} \ {NaN}
CountOf(df, col, v) == Cardinality({i \in 1..Len(df.rows) : df.rows[i][col] = v})

\* Order of two cells of one column: numbers by value, text by code points.
CellLeq(a, b) == IF a[1] = "num" /\ b[1] = "num" THEN a[2] <= b[2]
                 ELSE StrRank(a[3]) <= StrRank(b[3])

\* ------------------------------------------------------------ the strategies
\* A faulty variant of dropna: dropna(how="all"), only the rows without any value go.
dropna_all(df) ==
    [columns |-> df.columns,
     dtypes |-> df.dtypes,
     rows |-> SelectRows(df.rows,
                {i \in 1..Len(df.rows) : \E col \in Columns : ~isnull(df.rows[i][col])})]

\* df.dropna(): the rows without a missing cell, in their order.
dropna(df) ==
    [columns |-> df.columns,
     dtypes |-> df.dtypes,
     rows |-> SelectRows(df.rows,
                {i \in 1..Len(df.rows) : \A col \in Columns : ~isnull(df.rows[i][col])})]

\* A faulty variant of fillna: only the object columns are filled.
fillna_object_only(df, value) ==
    [columns |-> df.columns,
     dtypes |-> df.dtypes,
     rows |-> [i \in 1..Len(df.rows) |->
                 [col \in Columns |->
                    IF isnull(df.rows[i][col]) /\ df.dtypes[col] = "object"
                    THEN Str(value) ELSE df.rows[i][col]]]]

\* df.fillna(value) with a text value: a column that had a missing cell becomes
\* an object column, the other cells keep their values.
fillna(df, value) ==
    [columns |-> df.columns,
     dtypes |-> [col \in Columns |->
                   IF NullCount(df, col) > 0 THEN "object" ELSE df.dtypes[col]],
     rows |-> [i \in 1..Len(df.rows) |->
                 [col \in Columns |->
                    IF isnull(df.rows[i][col]) THEN Str(value) ELSE df.rows[i][col]]]]

\* Series.mode(): the most frequent non-missing values, sorted.
mode(df, col) ==
    TheOne({{v \in DOMAIN cnt : \A w \in DOMAIN cnt : cnt[w] <= cnt[v]} :
              cnt \in {[v \in ColumnValues(df, col) |-> CountOf(df, col, v)]}})

\* Series.mode()[0]: the smallest of them (KeyError when there is none).
ModeFirst(df, col) ==
    TheOne({CHOOSE v \in m : \A w \in m : CellLeq(v, w) : m \in {mode(df, col)}})

\* The k-th smallest non-missing number of a column, in halves.
KthSmallest(df, col, k) ==
    LET idx == {i \in 1..Len(df.rows) : ~isnull(df.rows[i][col])}
        val(i) == df.rows[i][col][2]
    IN  CHOOSE v \in {val(i) : i \in idx} :
           /\ Cardinality({i \in idx : val(i) < v}) < k
           /\ k <= Cardinality({i \in idx : val(i) <= v})

\* A faulty variant of median: the lower of the two middle numbers instead of their mean.
median_low(df, col) ==
    LET n == Len(df.rows) - NullCount(df, col)
    IN  IF n = 0 THEN NaN ELSE Num(KthSmallest(df, col, (n + 1) \div 2))

\* Series.median(): NaN for a column without a number, the middle number, or
\* the mean of the two middle numbers.
median(df, col) ==
    LET n == Len(df.rows) - NullCount(df, col)
    IN  IF n = 0 THEN NaN
        ELSE IF n % 2 = 1 THEN Num(KthSmallest(df, col, (n + 1) \div 2))
        ELSE Num((KthSmallest(df, col, n \div 2)
                    + KthSmallest(df, col, n \div 2 + 1)) \div 2)

\* df[column].fillna(v[column], inplace=True) for the columns v names;
\* filling with NaN changes nothing.
FillColumns(df, v) ==
    [columns |-> df.columns,
     dtypes |-> df.dtypes,
     rows |-> [i \in 1..Len(df.rows) |->
                 [col \in Columns |->
                    IF col \in DOMAIN v /\ isnull(df.rows[i][col])
                    THEN v[col] ELSE df.rows[i][col]]]]

\* The loop of the "Mode" branch; mode()[0] raises KeyError on a column that
\* has no non-missing value.
ModeRaises(df) == \E col \in select_dtypes_object(df) : mode(df, col) = {}
FillMode(df) ==
    TheOne({FillColumns(df, m) :
              m \in {[col \in select_dtypes_object(df) |-> ModeFirst(df, col)]}})

\* The loop of the "Median" branch.
FillMedian(df) ==
    TheOne({FillColumns(df, m) :
              m \in {[col \in select_dtypes_number(df) |-> median(df, col)]}})

\* ---------------------------------------------------------- the output file
NoFile == [exists |-> FALSE, names |-> <<>>, types |-> <<>>, rows |-> <<>>]

\* A database file without the table cleaned_data.
NoTable == [exists |-> TRUE, names |-> <<>>, types |-> <<>>, rows |-> <<>>]

SqlType(dtype) ==
    CASE dtype = "int64" -> "INTEGER"
      [] dtype = "float64" -> "REAL"
      [] OTHER -> "TEXT"

Null == <<"null", 0, "">>
SqlCell(cell) == IF isnull(cell) THEN Null ELSE cell

\* The table cleaned_data that to_sql stores for a frame.
SqlTable(df) ==
    [exists |-> TRUE,
     names |-> df.columns,
     types |-> [col \in Columns |-> SqlType(df.dtypes[col])],
     rows |-> [i \in 1..Len(df.rows) |->
                 [col \in Columns |-> SqlCell(df.rows[i][col])]]]

\* The text of a column name in lower case.
Lower(name) == IF name = "A" THEN "a" ELSE name

\* CREATE TABLE fails with "duplicate column name" when two columns of the
\* frame have names that differ in case only.
to_sql_raises(df) ==
    \E c1 \in Columns : \E c2 \in Columns \ {c1} :
        Lower(df.columns[c1]) = Lower(df.columns[c2])

\* df.to_sql("cleaned_data", conn, if_exists="replace", index=False): the
\* table of the file is dropped, then the table of the frame is created and
\* its rows are inserted.  The DROP is committed on its own, so that a
\* CREATE that fails leaves a database file without the table.
to_sql(file, df) == IF to_sql_raises(df) THEN NoTable ELSE SqlTable(df)

\* ------------------------------------------------------------- responses
NoResp == [status |-> 0, error |-> "", file |-> NoFile, missing |-> <<>>, bars |-> <<>>]
JSONError(msg, code) == [NoResp EXCEPT !.status = code, !.error = msg]

\* ---------------------------------------------------- clean_data, lines 118-161
Strategies == {"drop", "fill", "fill with mode/median"}

Stored(frame) == [status |-> 200, error |-> "", df |-> frame]
Failed(code, msg) == [status |-> code, error |-> msg, df |-> NoDf]

\* A faulty variant of except_Exception: the status of the other handlers.
except_Exception_400(msg) == Failed(400, msg)

\* The except clause (lines 174-176): every exception is answered with its
\* text and status 500.
except_Exception(msg) == Failed(500, msg)

\* A faulty variant of FillOutcome: no check of the fill value; fillna(None) raises and
\* the exception is answered with status 500.
FillOutcomeUnchecked(frame, r) ==
    IF r.fill_value = None
    THEN Failed(500, "Must specify a fill 'value' or 'method'.")
    ELSE Stored(fillna(frame, r.fill_value))

\* The "fill" branch (lines 127-134).
FillOutcome(frame, r) ==
    IF r.fill_value = None
    THEN Failed(400, "Fill value is required for missing value strategy 'fill'.")
    ELSE Stored(fillna(frame, r.fill_value))

\* The "fill with mode/median" branch (lines 135-155); the KeyError of
\* mode()[0] is caught at line 174 and its text is "0".
ModeMedianOutcome(frame, r) ==
    IF r.categorical_fill_strategy \in {None, ""}
    THEN Failed(400, "Categorical fill strategy ('Mode' or 'Median') is required.")
    ELSE IF r.categorical_fill_strategy = "Mode"
    THEN IF ModeRaises(frame) THEN except_Exception("0") ELSE Stored(FillMode(frame))
    ELSE IF r.categorical_fill_strategy = "Median" THEN Stored(FillMedian(frame))
    ELSE Failed(400, "Invalid categorical fill strategy.")

\* A faulty variant of InvalidStrategyOutcome: no else branch, the frame is stored as
\* it was read.
InvalidStrategyStored(frame) == Stored(frame)

\* The else branch (lines 156-161).
InvalidStrategyOutcome(frame) == Failed(400, "Invalid missing value strategy.")

\* The strategy chosen by name (lines 124-161).
StrategyOutcome(frame, r) ==
    IF r.missing_value_strategy = "drop" THEN Stored(dropna(frame))
    ELSE IF r.missing_value_strategy = "fill" THEN FillOutcome(frame, r)
    ELSE IF r.missing_value_strategy = "fill with mode/median"
    THEN ModeMedianOutcome(frame, r)
    ELSE InvalidStrategyOutcome(frame)

\* What the body of clean_data reaches before the file is opened: the frame
\* to store (status 200), or the JSON error it returns; an exception of
\* read_csv is caught at line 174 (lines 118-122, 174-176).
CleanOutcome(r) ==
    IF ~r.file.parsable THEN except_Exception("No columns to parse from file")
    ELSE TheOne({StrategyOutcome(frame, r) : frame \in {read_csv(r.file)}})

\* ------------------------------------------------ visualize_data, lines 82-87
\* value_counts(): the labels of the categorical column (missing cells are
\* not counted) with their row counts.
Labels(df, cat) == ColumnValues(df, cat)

\* A faulty variant of TopCategories: value_counts(sort=False), any n labels.
FirstCategories(df, cat, n) ==
    {S \in SUBSET Labels(df, cat) :
        Cardinality(S) = IF n < Cardinality(Labels(df, cat))
                         THEN n ELSE Cardinality(Labels(df, cat))}

\* value_counts().head(n).index for n >= 0: n labels of highest count (all
\* labels when there are fewer); labels of equal count come in no fixed order,
\* so every choice among them is possible.
TopCategories(df, cat, n) ==
    {S \in SUBSET Labels(df, cat) :
        /\ Cardinality(S) = IF n < Cardinality(Labels(df, cat))
                            THEN n ELSE Cardinality(Labels(df, cat))
        /\ \A s \in S : \A t \in Labels(df, cat) \ S :
              CountOf(df, cat, t) <= CountOf(df, cat, s)}

RECURSIVE SumRows(_, _, _)
\* Sum of the numeric column over the rows of idx, missing cells skipped.
SumRows(df, num, idx) ==
    IF idx = {} THEN 0
    ELSE LET i == CHOOSE j \in idx : TRUE
         IN  (IF isnull(df.rows[i][num]) THEN 0 ELSE df.rows[i][num][2])
               + SumRows(df, num, idx \ {i})

\* filtered_df.groupby(cat)[num].sum() for one label of top.
GroupSum(df, cat, num, label) ==
    SumRows(df, num, {i \in 1..Len(df.rows) : df.rows[i][cat] = label})

\* .sort_values(ascending=False): the bars <<label, sum>> of the labels of
\* top, highest sum first; bars of equal sum come in no fixed order.
SortedBars(df, cat, num, top) ==
    {[k \in 1..Cardinality(top) |-> <<f[k], GroupSum(df, cat, num, f[k])>>] :
        f \in {g \in [1..Cardinality(top) -> top] :
                 /\ \A j, k \in 1..Cardinality(top) : j # k => g[j] # g[k]
                 /\ \A j, k \in 1..Cardinality(top) :
                       j < k => GroupSum(df, cat, num, g[k]) <= GroupSum(df, cat, num, g[j])}}

\* The request raises before a chart exists: the upload does not parse, a
\* column is not in the table, or the summed column holds no numbers.
VisualizeRaises(r) ==
    IF ~r.file.parsable THEN TRUE
    ELSE IF r.categorical_column \notin Columns THEN TRUE
    ELSE IF r.numeric_column \notin Columns THEN TRUE
    ELSE read_csv(r.file).dtypes[r.numeric_column] = "object"

\* --------------------------------------------- missing_values, lines 47-64
\* A faulty variant of MissingColumns: the counts of all columns.
MissingColumnsUnfiltered(df) == [col \in Columns |-> NullCount(df, col)]

\* df.isnull().sum() restricted to the columns whose count is positive.
MissingColumns(df) == [col \in {k \in Columns : NullCount(df, k) > 0} |-> NullCount(df, col)]

\* ------------------------------------------------------------- the requests
Clients == {"c1", "c2"}

StrategyNames == Strategies \cup {"Drop"}
FillValues == {None, "X"}
SubStrategies == {None, "", "Mode", "Median", "mode"}

NoReq == [op |-> "none", file |-> BadUpload, missing_value_strategy |-> None,
          fill_value |-> None, categorical_fill_strategy |-> None,
          categorical_column |-> NoColumn, numeric_column |-> NoColumn, top_n |-> 0]

\* The clean-data requests: the form fields a strategy does not read are
\* left out, as the client does (frontend_v2.py lines 190-200).
CleanRequests(U) ==
    {[NoReq EXCEPT !.op = "clean-data", !.file = u, !.missing_value_strategy = p[1],
                   !.fill_value = p[2], !.categorical_fill_strategy = p[3]] :
        u \in U,
        p \in {q \in StrategyNames \X FillValues \X SubStrategies :
                 /\ q[1] # "fill" => q[2] = None
                 /\ q[1] # "fill with mode/median" => q[3] = None}}

MissingRequests(U) == {[NoReq EXCEPT !.op = "missing-values", !.file = u] : u \in U}

\* The column pairs of a visualize request: the two columns, or a name that
\* is not a column of the table.
ColumnPairs == {<<1, 2>>, <<2, 1>>, <<NoColumn, 2>>, <<1, NoColumn>>}

VisualizeRequests(U) ==
    {[NoReq EXCEPT !.op = "visualize", !.file = u, !.categorical_column = cp[1],
                   !.numeric_column = cp[2], !.top_n = n] :
        u \in U, cp \in ColumnPairs, n \in 0..MaxTopN}

\* ------------------------------------------------------------------ state
VARIABLES
    database_file,  \* the content of cleaned_data.db
    pc,             \* per client: "idle", "read", "send", "done"
    req,            \* per client: the request in flight
    df,             \* per client: the frame of clean_data after its strategy
    resp            \* per client: the response delivered

vars == <<database_file, pc, req, df, resp>>

\* A file left by an earlier run of the service.
OldFile == SqlTable(read_csv([parsable |-> TRUE, header |-> Header, rows |-> << <<"a", "1">> >>]))
InitialFiles == {NoFile, OldFile}

\* The uploads of the two concurrent clients.
RaceUploads ==
    {[parsable |-> TRUE, header |-> Header,
      rows |-> << <<"a", "">>, <<"", "2">>, <<"a", "1">> >>],
     [parsable |-> TRUE, header |-> Header, rows |-> << <<"1", "a">>, <<"2", "">> >>],
     [parsable |-> TRUE, header |-> Header, rows |-> <<>>],
     [parsable |-> TRUE, header |-> ClashHeader, rows |-> << <<"1", "2">> >>],
     BadUpload}

Init ==
    /\ database_file \in InitialFiles
    /\ pc = [c \in Clients |-> "idle"]
    /\ req = [c \in Clients |-> NoReq]
    /\ df = [c \in Clients |-> NoDf]
    /\ resp = [c \in Clients |-> NoResp]

\* The request r of client c1 has been received; the service holds a file
\* of an earlier run.
OneReceived(r) ==
    /\ database_file = OldFile
    /\ pc = [c \in Clients |-> IF c = "c1" THEN "read" ELSE "idle"]
    /\ req = [c \in Clients |-> IF c = "c1" THEN r ELSE NoReq]
    /\ df = [c \in Clients |-> NoDf]
    /\ resp = [c \in Clients |-> NoResp]

\* One request, drawn from all uploads.
InitClean == \E u \in Uploads : \E r \in CleanRequests({u}) : OneReceived(r)
InitMissing == \E u \in Uploads : \E r \in MissingRequests({u}) : OneReceived(r)
InitVisualize == \E u \in Uploads : \E r \in VisualizeRequests({u}) : OneReceived(r)

\* ---------------------------------------------------------------- actions
\* A clean-data request arrives; the handler awaits the upload's bytes
\* (line 120) and other requests are served meanwhile.
receive(c) ==
    /\ pc[c] = "idle"
    /\ \E r \in CleanRequests(RaceUploads) : req' = [req EXCEPT ![c] = r]
    /\ pc' = [pc EXCEPT ![c] = "read"]
    /\ UNCHANGED <<database_file, df, resp>>

\* clean_data returns a JSON error (lines 130, 138, 152, 158, 176); the file
\* is not opened.
clean_data_error(c) ==
    /\ pc[c] = "read" /\ req[c].op = "clean-data"
    /\ \E out \in {CleanOutcome(req[c])} :
           /\ out.status # 200
           /\ resp' = [resp EXCEPT ![c] = JSONError(out.error, out.status)]
    /\ pc' = [pc EXCEPT ![c] = "done"]
    /\ UNCHANGED <<database_file, req, df>>

\* clean_data stores the frame (lines 164-166) and returns the FileResponse
\* (line 169), whose body is read when it is sent; when to_sql raises, the
\* except clause answers (line 176).
clean_data_write(c) ==
    /\ pc[c] = "read" /\ req[c].op = "clean-data"
    /\ \E out \in {CleanOutcome(req[c])} :
           /\ out.status = 200
           /\ df' = [df EXCEPT ![c] = out.df]
           /\ database_file' = to_sql(database_file, out.df)
           /\ IF to_sql_raises(out.df)
              THEN /\ \E e \in {except_Exception("duplicate column name")} :
                         resp' = [resp EXCEPT ![c] = JSONError(e.error, e.status)]
                   /\ pc' = [pc EXCEPT ![c] = "done"]
              ELSE /\ pc' = [pc EXCEPT ![c] = "send"]
                   /\ UNCHANGED resp
    /\ UNCHANGED req

\* The FileResponse sends the bytes the file holds now (lines 169-173).
file_response_send(c) ==
    /\ pc[c] = "send"
    /\ resp' = [resp EXCEPT ![c] = [NoResp EXCEPT !.status = 200, !.file = database_file]]
    /\ pc' = [pc EXCEPT ![c] = "done"]
    /\ UNCHANGED <<database_file, req, df>>

\* missing_values, the whole handler (lines 45-68).
missing_values(c) ==
    /\ pc[c] = "read" /\ req[c].op = "missing-values"
    /\ resp' = [resp EXCEPT ![c] =
                  IF ~req[c].file.parsable
                  THEN JSONError("No columns to parse from file", 400)
                  ELSE [NoResp EXCEPT !.status = 200,
                                      !.missing = MissingColumns(read_csv(req[c].file))]]
    /\ pc' = [pc EXCEPT ![c] = "done"]
    /\ UNCHANGED <<database_file, req, df>>

\* visualize_data ends in an unhandled exception and the framework answers
\* 500.  Plotting a series without a bar may raise too (it does in some
\* releases of the plotting library), so both outcomes are possible then.
visualize_data_raise(c) ==
    /\ pc[c] = "read" /\ req[c].op = "visualize"
    /\ IF VisualizeRaises(req[c]) THEN TRUE
       ELSE TopCategories(read_csv(req[c].file), req[c].categorical_column,
                          req[c].top_n) = {{}}
    /\ resp' = [resp EXCEPT ![c] = [NoResp EXCEPT !.status = 500]]
    /\ pc' = [pc EXCEPT ![c] = "done"]
    /\ UNCHANGED <<database_file, req, df>>

\* visualize_data returns the chart (lines 78-100).
visualize_data(c) ==
    /\ pc[c] = "read" /\ req[c].op = "visualize"
    /\ ~VisualizeRaises(req[c])
    /\ \E top \in TopCategories(read_csv(req[c].file), req[c].categorical_column,
                                req[c].top_n) :
         \E bars \in SortedBars(read_csv(req[c].file), req[c].categorical_column,
                                req[c].numeric_column, top) :
            resp' = [resp EXCEPT ![c] = [NoResp EXCEPT !.status = 200, !.bars = bars]]
    /\ pc' = [pc EXCEPT ![c] = "done"]
    /\ UNCHANGED <<database_file, req, df>>

\* The client saves the body of a successful clean-data response under the
\* name cleaned_data.db (frontend_v2.py lines 215-218).
frontend_save(c) ==
    /\ pc[c] = "done" /\ req[c].op = "clean-data" /\ resp[c].status = 200
    /\ database_file' = resp[c].file
    /\ pc' = [pc EXCEPT ![c] = "idle"]
    /\ req' = [req EXCEPT ![c] = NoReq]
    /\ df' = [df EXCEPT ![c] = NoDf]
    /\ resp' = [resp EXCEPT ![c] = NoResp]

\* The caller is done with the response and keeps nothing of it.
client_finish(c) ==
    /\ pc[c] = "done"
    /\ pc' = [pc EXCEPT ![c] = "idle"]
    /\ req' = [req EXCEPT ![c] = NoReq]
    /\ df' = [df EXCEPT ![c] = NoDf]
    /\ resp' = [resp EXCEPT ![c] = NoResp]
    /\ UNCHANGED database_file

clean_data(c) ==
    \/ clean_data_error(c)
    \/ clean_data_write(c)
    \/ file_response_send(c)
    \/ frontend_save(c)

Next == \E c \in Clients : receive(c) \/ clean_data(c) \/ client_finish(c)

\* Two clients, clean-data requests without end on the uploads of RaceUploads.
\* The other operations read and write nothing that is shared; they have
\* their own specifications below.
Spec == Init /\ [][Next]_vars

\* One clean-data request on every upload.
NextClean == \E c \in Clients : clean_data(c) \/ client_finish(c)
SpecClean == InitClean /\ [][NextClean]_vars

\* One missing-values request on every upload.
NextMissing == \E c \in Clients : missing_values(c) \/ client_finish(c)
SpecMissing == InitMissing /\ [][NextMissing]_vars

\* One visualize request on every upload.
NextVisualize ==
    \E c \in Clients : visualize_data_raise(c) \/ visualize_data(c) \/ client_finish(c)
SpecVisualize == InitVisualize /\ [][NextVisualize]_vars

\* ================================================================ claims
Handled(c) == pc[c] \in {"send", "done"}
CleanOf(c, strategy) ==
    /\ req[c].op = "clean-data"
    /\ req[c].file.parsable
    /\ req[c].missing_value_strategy = strategy
\* No error was returned: the response is pending or is the file.
NoError(c) == resp[c].status = IF pc[c] = "done" THEN 200 ELSE 0
RawMissing(c, i, col) == req[c].file.rows[i][col] = ""

\* C1: a clean-data request on a parsable upload whose strategy is none of
\* "drop", "fill", "fill with mode/median" is answered with status 400 and the
\* message "Invalid missing value strategy.", and no step of that request
\* changes the content of cleaned_data.db.
C1_InvalidStrategyRejected ==
    [][\A c \in Clients :
          (/\ req[c].op = "clean-data"
           /\ req[c].file.parsable
           /\ req[c].missing_value_strategy \notin {"drop", "fill", "fill with mode/median"}
           /\ pc'[c] # pc[c])
          => /\ database_file' = database_file
             /\ pc[c] = "read" =>
                  /\ pc'[c] = "done"
                  /\ resp'[c].status = 400
                  /\ resp'[c].error = "Invalid missing value strategy."]_vars

\* C1 witness: an unknown strategy has been rejected while the file holds a
\* table that another request stored.
C1_Witness ==
    \E c \in Clients :
        /\ pc[c] = "done" /\ req[c].op = "clean-data" /\ req[c].file.parsable
        /\ Len(req[c].file.rows) > 0
        /\ req[c].missing_value_strategy = "Drop"
        /\ resp[c].status = 400
        /\ database_file.exists /\ database_file # OldFile

\* The tables that one strategy, applied to the whole upload of one request
\* the clients can make, produces.
CompleteResults ==
    {SqlTable(out.df) :
        out \in {o \in {CleanOutcome(r) : r \in CleanRequests(RaceUploads)} : o.status = 200}}

\* C2: in every reachable state the file holds its initial content or the
\* complete result of one strategy applied to the whole upload of one request.
C2_FileIsOneCompleteResult == database_file \in InitialFiles \cup CompleteResults

\* C2 witness: two requests with different results have both stored theirs.
C2_Witness ==
    /\ pc["c1"] = "send" /\ pc["c2"] = "send"
    /\ df["c1"] # df["c2"]
    /\ database_file = SqlTable(df["c2"])
    /\ Len(database_file.rows) > 0

\* C3: the file sent to the caller of a successful clean-data request holds
\* the table that this request produced.
C3_ResponseHoldsOwnTable ==
    \A c \in Clients :
        (pc[c] = "done" /\ req[c].op = "clean-data" /\ resp[c].status = 200)
        => resp[c].file = SqlTable(df[c])

\* C4: strategy "fill" with a value X succeeds; the result has the rows and
\* columns of the upload, X in every cell that was missing, the value of the
\* upload in every other cell, and no missing cell.
C4_FillReplacesEveryMissingCell ==
    \A c \in Clients :
        (Handled(c) /\ CleanOf(c, "fill") /\ req[c].fill_value # None)
        => \A o \in {read_csv(req[c].file)} : \A d \in {df[c]} :
              /\ NoError(c)
              /\ Len(d.rows) = Len(o.rows)
              /\ \A i \in 1..Len(o.rows) :
                    /\ DOMAIN d.rows[i] = Columns
                    /\ \A col \in Columns :
                          /\ ~isnull(d.rows[i][col])
                          /\ RawMissing(c, i, col) => d.rows[i][col] = Str(req[c].fill_value)
                          /\ ~RawMissing(c, i, col) => d.rows[i][col] = o.rows[i][col]

\* C4 witness: a missing cell next to a number has been filled with "X".
C4_Witness ==
    \E c \in Clients :
        /\ pc[c] = "send" /\ CleanOf(c, "fill") /\ req[c].fill_value = "X"
        /\ Len(req[c].file.rows) = 2
        /\ req[c].file.rows[1] = <<"1", "a">> /\ req[c].file.rows[2] = <<"", "">>
        /\ df[c].rows[2] = <<Str("X"), Str("X")>>
        /\ df[c].rows[1] = <<Num(2), Str("a")>>

\* C5: strategy "drop" succeeds; the result holds exactly the rows of the
\* upload that have no missing cell, in their order, so it has no missing
\* cell and at most as many rows as the upload.
C5_DropKeepsCompleteRows ==
    \A c \in Clients :
        (Handled(c) /\ CleanOf(c, "drop"))
        => \A o \in {read_csv(req[c].file)} : \A d \in {df[c]} :
             \A keep \in {{i \in 1..Len(o.rows) : \A col \in Columns : ~RawMissing(c, i, col)}} :
              /\ NoError(c)
              /\ Len(d.rows) = Cardinality(keep)
              /\ Len(d.rows) <= Len(o.rows)
              /\ \A k \in 1..Len(d.rows) :
                    /\ \A col \in Columns : ~isnull(d.rows[k][col])
                    /\ \E i \in keep :
                          /\ Cardinality({j \in keep : j <= i}) = k
                          /\ d.rows[k] = o.rows[i]

\* C5 witness: the middle row of three was dropped.
C5_Witness ==
    \E c \in Clients :
        /\ pc[c] = "send" /\ CleanOf(c, "drop")
        /\ Len(req[c].file.rows) = 3
        /\ req[c].file.rows[2][1] = ""
        /\ Len(df[c].rows) = 2
        /\ df[c].rows[1] # df[c].rows[2]

ModeRequest(c) ==
    CleanOf(c, "fill with mode/median") /\ req[c].categorical_fill_strategy = "Mode"
MedianRequest(c) ==
    CleanOf(c, "fill with mode/median") /\ req[c].categorical_fill_strategy = "Median"
Textual(o, col) == o.dtypes[col] = "object"
\* How often the value v occurs in a column of the parsed upload.
Occurs(o, col, v) == Cardinality({i \in 1..Len(o.rows) : o.rows[i][col] = v})
\* v is a most frequent non-missing value of the column.
MostFrequent(o, col, v) ==
    /\ ~isnull(v) /\ Occurs(o, col, v) > 0
    /\ \A i \in 1..Len(o.rows) :
          isnull(o.rows[i][col]) \/ Occurs(o, col, o.rows[i][col]) <= Occurs(o, col, v)
\* The result d of sub-strategy "Mode" on the parsed upload o: every missing
\* cell of a textual column holds a most frequent value of its column, the
\* same in the whole column, and every other cell is the cell of the upload.
ModeResult(o, d) ==
    /\ Len(d.rows) = Len(o.rows)
    /\ \A col \in Columns :
          IF Textual(o, col)
          THEN \E v \in {o.rows[i][col] : i \in 1..Len(o.rows)} :
                  /\ MostFrequent(o, col, v)
                  /\ \A i \in 1..Len(o.rows) :
                        d.rows[i][col] = IF isnull(o.rows[i][col]) THEN v ELSE o.rows[i][col]
          ELSE \A i \in 1..Len(o.rows) : d.rows[i][col] = o.rows[i][col]

\* C6: sub-strategy "Mode" succeeds on every upload; no textual column has a
\* missing cell afterwards, each formerly missing cell holding the most
\* frequent value of its column, and the numeric columns are unchanged.
C6_ModeSucceedsOnEveryTable ==
    \A c \in Clients :
        (pc[c] = "done" /\ ModeRequest(c))
        => /\ resp[c].status = 200
           /\ ModeResult(read_csv(req[c].file), df[c])

\* The same for the uploads that have at least one row.
ModeFillsTablesWithRows ==
    \A c \in Clients :
        (Handled(c) /\ ModeRequest(c) /\ Len(req[c].file.rows) > 0)
        => \A o \in {read_csv(req[c].file)} : \A d \in {df[c]} :
              NoError(c) /\ ModeResult(o, d)

\* The numbers of a numeric column of the parsed upload, as the set of their
\* row indices, and the median of the column (in halves): the mean of the
\* two middle numbers of the column sorted.
NumberRows(o, col) == {i \in 1..Len(o.rows) : ~isnull(o.rows[i][col])}
IsMedian(o, col, m) ==
    \A idx \in {NumberRows(o, col)} : \A n \in {Cardinality(idx)} :
        \E s \in [1..n -> idx] :
            /\ \A j, k \in 1..n : j < k =>
                  s[j] # s[k] /\ o.rows[s[j]][col][2] <= o.rows[s[k]][col][2]
            /\ 2 * m = o.rows[s[(n + 1) \div 2]][col][2] + o.rows[s[n \div 2 + 1]][col][2]

\* C7 as stated: after sub-strategy "Median" no numeric column has a missing
\* cell.
C7_MedianLeavesNoNumericMissing ==
    \A c \in Clients :
        (Handled(c) /\ MedianRequest(c))
        => \A o \in {read_csv(req[c].file)} : \A d \in {df[c]} :
              /\ NoError(c)
              /\ \A col \in Columns : \A i \in 1..Len(d.rows) :
                    ~Textual(o, col) => ~isnull(d.rows[i][col])

\* C7 amended: sub-strategy "Median" succeeds; every missing cell of a numeric
\* column that holds at least one number is filled with the median of the
\* column, a numeric column whose every cell is missing stays as it is, and
\* the textual columns and all cells that were not missing are unchanged.
C7_MedianFillsColumnsWithNumbers ==
    \A c \in Clients :
        (Handled(c) /\ MedianRequest(c))
        => \A o \in {read_csv(req[c].file)} : \A d \in {df[c]} :
              /\ NoError(c)
              /\ Len(d.rows) = Len(o.rows)
              /\ \A col \in Columns :
                    IF ~Textual(o, col) /\ NumberRows(o, col) # {}
                    THEN \E m \in {(o.rows[i][col][2] + o.rows[j][col][2]) \div 2 :
                                     i, j \in NumberRows(o, col)} :
                            /\ IsMedian(o, col, m)
                            /\ \A i \in 1..Len(o.rows) :
                                  d.rows[i][col] = IF RawMissing(c, i, col)
                                                   THEN Num(m) ELSE o.rows[i][col]
                    ELSE \A i \in 1..Len(o.rows) : d.rows[i][col] = o.rows[i][col]

\* C7 witness: the median 1.5 of the numbers 1 and 2 has filled a cell, next
\* to a numeric column without a number, which stays missing.
C7_Witness ==
    \E c \in Clients :
        /\ pc[c] = "send" /\ MedianRequest(c)
        /\ Len(req[c].file.rows) = 3
        /\ \A i \in 1..3 : req[c].file.rows[i][2] = ""
        /\ req[c].file.rows[3][1] = ""
        /\ df[c].rows[3] = <<Num(3), NaN>>

BadParameters(c) ==
    /\ req[c].op = "clean-data"
    /\ \/ req[c].missing_value_strategy = "fill" /\ req[c].fill_value = None
       \/ /\ req[c].missing_value_strategy = "fill with mode/median"
          /\ req[c].categorical_fill_strategy \notin {"Mode", "Median"}

\* C8 as stated: a request with strategy "fill" and no fill value, or with
\* strategy "fill with mode/median" and a sub-strategy other than "Mode" and
\* "Median", is answered with status 400.
C8_BadParametersAnswered400 ==
    \A c \in Clients : (pc[c] = "done" /\ BadParameters(c)) => resp[c].status = 400

\* C8 amended: such a request is answered with a JSON error, status 400 when
\* the upload parses and status 500 when it does not, and no step of the
\* request changes the content of cleaned_data.db.
C8_BadParametersRejected ==
    [][\A c \in Clients :
          (BadParameters(c) /\ pc'[c] # pc[c])
          => /\ database_file' = database_file
             /\ pc[c] = "read" =>
                  /\ pc'[c] = "done"
                  /\ resp'[c].error # ""
                  /\ resp'[c].status = IF req[c].file.parsable THEN 400 ELSE 500]_vars

\* C8 witness: a request without a sub-strategy has been answered with 400
\* while the file holds a table that another request stored.
C8_Witness ==
    \E c \in Clients :
        /\ pc[c] = "done" /\ BadParameters(c) /\ req[c].file.parsable
        /\ req[c].categorical_fill_strategy = ""
        /\ resp[c].status = 400
        /\ database_file.exists /\ database_file # OldFile

\* C9: missing-values on a parsable upload succeeds with the mapping whose
\* keys are the columns with at least one empty field and whose values are
\* the numbers of empty fields (the empty mapping when there is none).
C9_MissingCountsPerColumn ==
    \A c \in Clients :
        (pc[c] = "done" /\ req[c].op = "missing-values" /\ req[c].file.parsable)
        => \A raw \in {req[c].file.rows} :
              /\ resp[c].status = 200
              /\ DOMAIN resp[c].missing =
                    {col \in Columns : \E i \in 1..Len(raw) : raw[i][col] = ""}
              /\ \A col \in DOMAIN resp[c].missing :
                    resp[c].missing[col] = Cardinality({i \in 1..Len(raw) : raw[i][col] = ""})

\* C9 witness: only the second column has missing cells, two of them.
C9_Witness ==
    \E c \in Clients :
        /\ pc[c] = "done" /\ req[c].op = "missing-values"
        /\ Len(req[c].file.rows) = 3
        /\ resp[c].status = 200
        /\ DOMAIN resp[c].missing = {2}
        /\ resp[c].missing[2] = 2

\* The sum (in halves) of the numeric column over the rows of one label.
LabelSum(o, cat, num, label) ==
    2 * Cardinality({i \in 1..Len(o.rows) : o.rows[i][cat] = label /\ o.rows[i][num] = Num(2)})
    + 4 * Cardinality({i \in 1..Len(o.rows) : o.rows[i][cat] = label /\ o.rows[i][num] = Num(4)})

\* C10: a chart of visualize has at most top_n bars, of distinct labels of
\* the categorical column; no charted label occurs in fewer rows than a label
\* that is not charted; each bar is the sum of the numeric column over the
\* rows of its label; the bars are in descending order of that sum.
C10_ChartOfTopCategories ==
    \A c \in Clients :
        (pc[c] = "done" /\ req[c].op = "visualize" /\ resp[c].status = 200)
        => \A o \in {read_csv(req[c].file)} : \A bars \in {resp[c].bars} :
             \A cat \in {req[c].categorical_column} : \A num \in {req[c].numeric_column} :
              /\ Len(bars) <= req[c].top_n
              /\ \A j, k \in 1..Len(bars) : j < k =>
                    bars[j][1] # bars[k][1] /\ bars[k][2] <= bars[j][2]
              /\ \A k \in 1..Len(bars) :
                    /\ ~isnull(bars[k][1])
                    /\ Occurs(o, cat, bars[k][1]) > 0
                    /\ bars[k][2] = LabelSum(o, cat, num, bars[k][1])
                    /\ \A i \in 1..Len(o.rows) :
                          \/ isnull(o.rows[i][cat])
                          \/ \E j \in 1..Len(bars) : bars[j][1] = o.rows[i][cat]
                          \/ Occurs(o, cat, o.rows[i][cat]) <= Occurs(o, cat, bars[k][1])

\* C10 witness: of two labels the one with more rows is charted alone, and
\* its sum is smaller than the sum of the label left out.
C10_Witness ==
    \E c \in Clients :
        /\ pc[c] = "done" /\ req[c].op = "visualize" /\ resp[c].status = 200
        /\ req[c].top_n = 1
        /\ req[c].file.rows = << <<"a", "">>, <<"1", "2">>, <<"a", "1">> >>
        /\ req[c].categorical_column = 1 /\ req[c].numeric_column = 2
        /\ resp[c].bars = << <<Str("a"), 2>> >>

\* The parameters of a clean-data request that the handler rejects: an
\* unknown strategy, "fill" without a fill value, "fill with mode/median"
\* without one of the two sub-strategies.
InvalidParameters(r) ==
    \/ r.missing_value_strategy \notin {"drop", "fill", "fill with mode/median"}
    \/ r.missing_value_strategy = "fill" /\ r.fill_value = None
    \/ /\ r.missing_value_strategy = "fill with mode/median"
       /\ r.categorical_fill_strategy \notin {"Mode", "Median"}

\* The requests during which an exception is raised: the upload is not a
\* CSV text; the mode of a column without a value is taken (a table without
\* data rows); the table cannot be created (column names equal but for
\* their case).
ParseRaises(r) == ~r.file.parsable
StrategyRaises(r) ==
    /\ r.file.parsable
    /\ r.missing_value_strategy = "fill with mode/median"
    /\ r.categorical_fill_strategy = "Mode"
    /\ Len(r.file.rows) = 0
WriteRaises(r) ==
    /\ r.file.parsable /\ ~InvalidParameters(r) /\ ~StrategyRaises(r)
    /\ r.file.header = ClashHeader

\* C11: a clean-data request that was received always has a next step of
\* its handler, and it ends in one of three answers: status 200 with the
\* database file and no error text; status 400 with a JSON error, exactly
\* when the upload parses and the parameters are invalid; status 500 with a
\* JSON error, exactly when parsing raises, or the parameters are valid and
\* the strategy or the write raises.
C11_ThreeOutcomes ==
    \A c \in Clients :
        /\ pc[c] \in {"read", "send"} => ENABLED clean_data(c)
        /\ (pc[c] = "done" /\ req[c].op = "clean-data") =>
              \A r \in {req[c]} : \A a \in {resp[c]} :
                 /\ a.status \in {200, 400, 500}
                 /\ a.status = 200 => a.error = "" /\ a.file.exists
                 /\ a.status # 200 => a.error # "" /\ a.file = NoFile
                 /\ a.status = 400 <=> (r.file.parsable /\ InvalidParameters(r))
                 /\ a.status = 500 <=>
                       \/ ParseRaises(r)
                       \/ ~InvalidParameters(r) /\ (StrategyRaises(r) \/ WriteRaises(r))

\* C11 witness: one request was answered 500 because the write raised, and
\* the table of the file is gone; the other was answered 500 because the
\* strategy raised.
C11_Witness ==
    /\ pc["c1"] = "done" /\ WriteRaises(req["c1"])
    /\ resp["c1"] = JSONError("duplicate column name", 500)
    /\ database_file = NoTable
    /\ pc["c2"] = "done" /\ StrategyRaises(req["c2"])
    /\ resp["c2"] = JSONError("0", 500)
====
